---- MODULE Spec2Model ----
(***************************************************************************)
(* A model of the DragonChain Go SDK: the query builder (lucene.go), the   *)
(* signing transport (inquirer.go) and the resource clients                *)
(* (transaction.go, client.go).                                            *)
(*                                                                         *)
(* Go strings and byte slices are sequences of one-character strings.      *)
(* Digests are symbolic terms: hashing is an injective constructor.        *)
(***************************************************************************)
EXTENDS Integers, Sequences, FiniteSets, TLC

VARIABLES
    Endpoint,      \* inquirer.Endpoint
    Credentials,   \* inquirer.Credentials
    hashState,     \* bytes written to the hash.Hash object Credentials.SigningAlgorithm
    hmacUnique,    \* the toolchain's crypto/hmac rejects a generator returning one object twice
    phase,         \* position of the calling goroutine
    args,          \* the operation in progress and its arguments
    req,           \* the *http.Request handed to httpClient.Do
    resp,          \* what httpClient.Do returned to the operation in progress
    ret,           \* what the operation returned to its caller
    sends,         \* invocations of httpClient.Do made by the operation in progress
    calls,         \* operations started so far
    sigLog         \* history: inputs and result of every signature computed

vars == <<Endpoint, Credentials, hashState, hmacUnique, phase, args, req, resp, ret,
          sends, calls, sigLog>>

----------------------------------------------------------------------------
(* Bounds *)

MaxCalls == 2
MaxLimit == 2
MaxOffset == 1
MaxStrLen == 2
MaxTxs == 3

----------------------------------------------------------------------------
(* Strings *)

RECURSIVE Concat(_)
Concat(ss) == IF ss = <<>> THEN <<>> ELSE Head(ss) \o Concat(Tail(ss))

Digit(d) ==
    CASE d = 0 -> "0" [] d = 1 -> "1" [] d = 2 -> "2" [] d = 3 -> "3" [] d = 4 -> "4"
      [] d = 5 -> "5" [] d = 6 -> "6" [] d = 7 -> "7" [] d = 8 -> "8" [] d = 9 -> "9"

DigitChars == {"0", "1", "2", "3", "4", "5", "6", "7", "8", "9"}

DigitVal(c) ==
    CASE c = "0" -> 0 [] c = "1" -> 1 [] c = "2" -> 2 [] c = "3" -> 3 [] c = "4" -> 4
      [] c = "5" -> 5 [] c = "6" -> 6 [] c = "7" -> 7 [] c = "8" -> 8 [] c = "9" -> 9

RECURSIVE ItoaNat(_)
ItoaNat(n) == IF n < 10 THEN <<Digit(n)>> ELSE ItoaNat(n \div 10) \o <<Digit(n % 10)>>

\* strconv.Itoa
Itoa(n) == IF n < 0 THEN <<"-">> \o ItoaNat(-n) ELSE ItoaNat(n)

RECURSIVE DigitsVal(_, _)
DigitsVal(s, acc) ==
    IF s = <<>> THEN acc ELSE DigitsVal(Tail(s), acc * 10 + DigitVal(Head(s)))

\* strconv.Atoi accepts an optional sign, then one or more decimal digits.
AtoiBody(s) == IF s # <<>> /\ Head(s) \in {"+", "-"} THEN Tail(s) ELSE s

\* Mutant of AtoiOK: the empty digit string is let through.
AtoiOKWithoutDigits(s) == \A i \in 1..Len(AtoiBody(s)) : AtoiBody(s)[i] \in DigitChars

AtoiOK(s) ==
    /\ AtoiBody(s) # <<>>
    /\ \A i \in 1..Len(AtoiBody(s)) : AtoiBody(s)[i] \in DigitChars

Atoi(s) ==
    IF s # <<>> /\ Head(s) = "-" THEN -DigitsVal(AtoiBody(s), 0)
    ELSE DigitsVal(AtoiBody(s), 0)

\* All strings over alphabet of length at most n.
StringsUpTo(alphabet, n) == UNION {[1..k -> alphabet] : k \in 0..n}

Orderings(S) ==
    {p \in [1..Cardinality(S) -> S] : \A i, j \in 1..Cardinality(S) : p[i] = p[j] => i = j}

\* The pieces of s between occurrences of sep (strings.Split).
RECURSIVE Split(_, _, _)
Split(s, sep, cur) ==
    IF s = <<>> THEN <<cur>>
    ELSE IF Head(s) = sep THEN <<cur>> \o Split(Tail(s), sep, <<>>)
    ELSE Split(Tail(s), sep, Append(cur, Head(s)))

Range(f) == {f[i] : i \in DOMAIN f}

----------------------------------------------------------------------------
(* lucene.go *)

K_limit == <<"l", "i", "m", "i", "t">>
K_offset == <<"o", "f", "f", "s", "e", "t">>
K_q == <<"q">>
K_sort == <<"s", "o", "r", "t">>

\* The map built at lucene.go:15-24: key -> value.
queryMapKeys(q) ==
    {K_limit, K_offset}
        \cup (IF q.QueryString # <<>> THEN {K_q} ELSE {})
        \cup (IF q.Sort # <<>> THEN {K_sort} ELSE {})

queryMapValue(q, k) ==
    CASE k = K_limit -> Itoa(IF q.Limit > 0 THEN q.Limit ELSE 10)
      [] k = K_offset -> Itoa(IF q.Offset > 0 THEN q.Offset ELSE 0)
      [] k = K_q -> q.QueryString
      [] k = K_sort -> q.Sort

RECURSIVE queryLoop(_, _)
queryLoop(q, order) ==
    IF order = <<>> THEN <<>>
    ELSE Head(order) \o <<"=">> \o queryMapValue(q, Head(order)) \o <<"&">>
             \o queryLoop(q, Tail(order))

\* luceneQueryParams; order is the order in which range visits the map.
luceneQueryParams(q, order) ==
    LET query == queryLoop(q, order)
    IN  SubSeq(query, 1, Len(query) - 1)

MapOrders(q) == Orderings(queryMapKeys(q))

----------------------------------------------------------------------------
(* inquirer.go: signing *)

defaultEndpoint ==
    <<"h", "t", "t", "p", "s", ":", "/", "/", "a", "p", "i", ".", "d", "r", "a", "g",
      "o", "n", "c", "h", "a", "i", "n", ".", "c", "o", "m">>

MethodGet == <<"G", "E", "T">>
MethodPost == <<"P", "O", "S", "T">>
MethodPut == <<"P", "U", "T">>
MethodDelete == <<"D", "E", "L", "E", "T", "E">>

ApplicationJSON ==
    <<"a", "p", "p", "l", "i", "c", "a", "t", "i", "o", "n", "/", "j", "s", "o", "n">>

\* A hash.Hash value: the nil interface, or a reference to the caller's hash object.
NilHash == "nil"
UserHash == "hash"

\* unicode.ToUpper on the letters that occur in method names.
UpperOf(c) ==
    CASE c = "g" -> "G" [] c = "e" -> "E" [] c = "t" -> "T" [] c = "p" -> "P"
      [] c = "o" -> "O" [] c = "s" -> "S" [] c = "u" -> "U" [] c = "d" -> "D"
      [] c = "l" -> "L" [] OTHER -> c

ToUpper(s) == [i \in 1..Len(s) |-> UpperOf(s[i])]

\* Symbolic digests and encodings: injective constructors.
Sha256Sum(written) == [sha256 |-> written]
Base64(bytes) == [base64 |-> bytes]
XorPad(key, pad) == [key |-> key, pad |-> pad]

\* time.Now().UTC().Format("2006-01-02T15-04-05.999999") + "Z", for a clock that reads
\* us microseconds past a fixed second: the fraction drops its trailing zeros.
TimeSecond ==
    <<"2", "0", "1", "9", "-", "0", "1", "-", "0", "2", "T", "1", "5", "-", "0", "4",
      "-", "0", "5">>

RECURSIVE TrimZeros(_)
TrimZeros(s) ==
    IF s # <<>> /\ s[Len(s)] = "0" THEN TrimZeros(SubSeq(s, 1, Len(s) - 1)) ELSE s

RECURSIVE PadLeft(_, _)
PadLeft(s, n) == IF Len(s) >= n THEN s ELSE PadLeft(<<"0">> \o s, n)

formatTimestamp(us) ==
    LET frac == TrimZeros(PadLeft(ItoaNat(us), 6))
    IN  TimeSecond \o (IF frac = <<>> THEN <<>> ELSE <<".">> \o frac) \o <<"Z">>

\* The canonical message of authorizationHeader (inquirer.go:102-116): the text up to
\* the last newline, and the encoded digest of the content that follows it.
signingMessage(method, resource, contentType, timestamp, content, creds) ==
    [text |-> Concat(<<ToUpper(method), <<"\n">>, resource, <<"\n">>,
                       creds.DragonChainID, <<"\n">>, timestamp, <<"\n">>,
                       contentType, <<"\n">>>>),
     b64Content |-> Base64(Sha256Sum(content))]

\* hmac.New(func() hash.Hash { return creds.SigningAlgorithm }, key), Write(message),
\* Sum(nil) (inquirer.go:117-119). The generator returns the same object for the
\* inner and the outer hash. Result: [panic, hs, sig], hs the object's state after.
\*   - a nil hash: nil dereference in New;
\*   - a toolchain that checks the generator: New panics, the two hashes are one;
\*   - otherwise inner and outer share state: New writes ipad after whatever
\*     the object holds, Sum resets it and leaves opad and the inner digest in it.
hmacSum(creds, hs, unique, message) ==
    IF creds.SigningAlgorithm = NilHash \/ unique
    THEN [panic |-> TRUE, hs |-> hs, sig |-> <<>>]
    ELSE LET ipad == XorPad(creds.APIKey, "ipad")
             opad == XorPad(creds.APIKey, "opad")
             inner == Sha256Sum(hs \o <<ipad, message>>)
             after == <<opad, inner>>
         IN  [panic |-> FALSE, hs |-> after, sig |-> Sha256Sum(after)]

AuthScheme ==
    <<"D", "C", "1", "-", "H", "M", "A", "C", "-", "S", "H", "A", "2", "5", "6", " ">>

\* authorizationHeader (inquirer.go:101-120): [panic, hs, sig, header].
authorizationHeader(creds, hs, unique, method, resource, contentType, timestamp, content) ==
    LET m == signingMessage(method, resource, contentType, timestamp, content, creds)
        h == hmacSum(creds, hs, unique, m)
    IN  [panic |-> h.panic, hs |-> h.hs, sig |-> h.sig,
         header |-> [text |-> AuthScheme \o creds.ClientID \o <<":">>, sig |-> h.sig]]

\* hmacSign (inquirer.go:47-55): falls back to defaultSigningAlgo, whose state is
\* defaultHs. It has no caller.
hmacSign(creds, hs, defaultHs, unique, message) ==
    IF creds.SigningAlgorithm = NilHash
    THEN hmacSum([creds EXCEPT !.SigningAlgorithm = UserHash], defaultHs, unique, message)
    ELSE hmacSum(creds, hs, unique, message)

----------------------------------------------------------------------------
(* Errors and results *)

NoCause == ""

\* The nil error.
NilError == [kind |-> "nil", StatusCode |-> 0, Err |-> NoCause]

\* fmt.Errorf(...) returned by an operation before any request is made.
LocalError(cause) == [kind |-> "local", StatusCode |-> 0, Err |-> cause]

\* &APIError{StatusCode: code} and &APIError{Err: cause} (client.go:23-33).
APIError(code, cause) == [kind |-> "APIError", StatusCode |-> code, Err |-> cause]

\* A Go pointer or slice result: nil, or a value.
Nil == [isNil |-> TRUE]
NonNil(v) == [isNil |-> FALSE, v |-> v]

NoValue == [isNil |-> TRUE, none |-> TRUE]

Returned(value, err) == [value |-> value, err |-> err]

NoReturn == Returned(NoValue, NilError)

NoRequest == [sent |-> FALSE]

NoResponse == [received |-> FALSE]

----------------------------------------------------------------------------
(* encoding/json *)

EmptyObject == <<>>

\* A JSON object member, left out when omitempty applies and the value is empty.
Member(key, value) == key :> value
OmitEmpty(key, value, empty) == IF value = empty THEN EmptyObject ELSE key :> value

Field(obj, key, zero) == IF key \in DOMAIN obj THEN obj[key] ELSE zero

\* TransactionDefinition.Payload is an interface{}: a value json.Marshal encodes, or
\* one it rejects (a channel, a function).
Encodable(v) == [encodable |-> TRUE, v |-> v]
Unencodable == [encodable |-> FALSE]

\* json.Marshal of a TransactionDefinition (transaction.go:53-65).
marshalTransactionDefinition(def) ==
    Member("version", def.Version) @@ Member("txn_type", def.Type)
        @@ Member("payload", def.Payload.v) @@ OmitEmpty("tag", def.Tag, <<>>)

marshalTransactionDefinitionOK(def) == def.Payload.encodable

\* json.Marshal of a ContractDefinition (client.go:148-161): every member omitempty.
marshalContractDefinition(def) ==
    OmitEmpty("version", def.Version, <<>>) @@ OmitEmpty("txn_type", def.Type, <<>>)
        @@ OmitEmpty("execution_order", def.Order, <<>>)
        @@ OmitEmpty("image", def.Image, <<>>) @@ OmitEmpty("cmd", def.Command, <<>>)
        @@ OmitEmpty("desired_state", def.DesiredState, <<>>)
        @@ OmitEmpty("args", def.Args, <<>>) @@ OmitEmpty("env", def.Environment, <<>>)
        @@ OmitEmpty("secrets", def.Secrets, <<>>) @@ OmitEmpty("seconds", def.Seconds, 0)
        @@ OmitEmpty("cron", def.Cron, <<>>) @@ OmitEmpty("auth", def.Authentication, <<>>)

\* json.Marshal of a bulkTransactionDef (transaction.go:148-150, 164-165).
marshalBulk(txs) ==
    Member("payload", [i \in 1..Len(txs) |-> marshalTransactionDefinition(txs[i])])

marshalBulkOK(txs) == \A i \in 1..Len(txs) : marshalTransactionDefinitionOK(txs[i])

\* Go values decoded from a JSON object: a member is read by the key of its field's
\* tag (by the field's name when it has no tag), and keeps its zero value otherwise.
ZeroHeader ==
    [ID |-> <<>>, Type |-> <<>>, DragonChainID |-> <<>>, Tag |-> <<>>,
     Timestamp |-> <<>>, BlockID |-> <<>>, Invoker |-> <<>>]

ZeroProof == [Full |-> <<>>, Stripped |-> <<>>]

ZeroTransaction ==
    [DCRN |-> <<>>, Version |-> 0, Header |-> ZeroHeader, Payload |-> <<>>,
     Proof |-> ZeroProof]

\* transaction.go:19-44
decodeTransactionHeader(obj) ==
    [ID |-> Field(obj, "txn_id", <<>>), Type |-> Field(obj, "txn_type", <<>>),
     DragonChainID |-> Field(obj, "dc_id", <<>>), Tag |-> Field(obj, "tag", <<>>),
     Timestamp |-> Field(obj, "timestamp", <<>>),
     BlockID |-> Field(obj, "block_id", <<>>), Invoker |-> Field(obj, "invoker", <<>>)]

\* transaction.go:47-50
decodeTransactionProof(obj) ==
    [Full |-> Field(obj, "full", <<>>), Stripped |-> Field(obj, "stripped", <<>>)]

\* transaction.go:10-16: the Version field is tagged "vesion".
decodeTransaction(obj) ==
    [DCRN |-> Field(obj, "dcrn", <<>>), Version |-> Field(obj, "vesion", 0),
     Header |-> decodeTransactionHeader(Field(obj, "header", EmptyObject)),
     Payload |-> Field(obj, "payload", <<>>),
     Proof |-> decodeTransactionProof(Field(obj, "proof", EmptyObject))]

ZeroContract ==
    [DCRN |-> <<>>, Version |-> <<>>, ID |-> <<>>, Name |-> <<>>, Status |-> <<>>,
     CustomEnvironment |-> <<>>, Origin |-> <<>>, Runtime |-> <<>>, Type |-> <<>>,
     Code |-> <<>>, S3Bucket |-> <<>>, S3Path |-> <<>>, Serial |-> FALSE]

\* client.go:130-144
decodeContract(obj) ==
    [DCRN |-> Field(obj, "dcrn", <<>>), Version |-> Field(obj, "version", <<>>),
     ID |-> Field(obj, "id", <<>>), Name |-> Field(obj, "name", <<>>),
     Status |-> Field(obj, "status", <<>>),
     CustomEnvironment |-> Field(obj, "custom_environment_variables", <<>>),
     Origin |-> Field(obj, "origin", <<>>), Runtime |-> Field(obj, "runtime", <<>>),
     Type |-> Field(obj, "sc_type", <<>>), Code |-> Field(obj, "code", <<>>),
     S3Bucket |-> Field(obj, "s3_bucket", <<>>), S3Path |-> Field(obj, "s3_path", <<>>),
     Serial |-> Field(obj, "is_serial", FALSE)]

----------------------------------------------------------------------------
(* The server's side of an exchange *)

JSONNull == [t |-> "null"]
JSONString(v) == [t |-> "string", s |-> v]
JSONObject(v) == [t |-> "object", o |-> v]
JSONArray(v) == [t |-> "array", a |-> v]

\* A response body that is not JSON, and the envelope {ok, status[, response]}.
Garbage == [json |-> FALSE]
Envelope(ok, status) == [json |-> TRUE, obj |-> Member("ok", ok) @@ Member("status", status)]
EnvelopeWith(ok, status, response) ==
    [json |-> TRUE,
     obj |-> Member("ok", ok) @@ Member("status", status) @@ Member("response", response)]

Outcomes == {<<TRUE, 200>>, <<FALSE, 404>>, <<FALSE, 500>>}

Bodies(payloads) ==
    {Garbage} \cup {Envelope(o[1], o[2]) : o \in Outcomes}
        \cup {EnvelopeWith(o[1], o[2], r) : o \in Outcomes, r \in payloads}

TxId(i) == <<"t", Digit(i)>>

ServerTransaction ==
    [dcrn |-> <<"d">>, version |-> 1,
     header |-> [txn_id |-> TxId(1), txn_type |-> <<"y">>, dc_id |-> <<"c">>,
                 tag |-> <<"g">>, timestamp |-> <<"1">>, block_id |-> <<"b">>,
                 invoker |-> <<"i">>],
     payload |-> <<"p">>, proof |-> [full |-> <<"f">>, stripped |-> <<"s">>]]

ServerContract ==
    [dcrn |-> <<"d">>, version |-> <<"3">>, id |-> <<"a">>, name |-> <<"n">>,
     status |-> <<"u">>, custom_environment_variables |-> <<>>, origin |-> <<"o">>,
     runtime |-> <<"r">>, sc_type |-> <<"y">>, code |-> <<"c">>, s3_bucket |-> <<"b">>,
     s3_path |-> <<"p">>, is_serial |-> TRUE]

\* The id lists a bulk response can carry: K ids, in the server's order.
ServerIdLists ==
    {[i \in 1..k |-> TxId(i)] : k \in 0..MaxTxs} \cup {<<TxId(2), TxId(1)>>}

BulkPayload(ids) == JSONArray([i \in 1..Len(ids) |-> Member("transaction_id", ids[i])])

ServerBodies(op) ==
    CASE op = "GetTransaction" ->
            Bodies({JSONString(<<"x">>), JSONObject(ServerTransaction)})
      [] op = "CreateTransaction" ->
            Bodies({JSONString(<<"x">>), JSONObject(EmptyObject),
                    JSONObject(Member("transaction_id", TxId(1)))})
      [] op = "QueryTransactions" ->
            Bodies({JSONObject(EmptyObject), JSONObject(Member("results", JSONNull)),
                    JSONObject(Member("results", JSONArray(<<ServerTransaction>>)))})
      [] op = "BulkCreateTransactions" ->
            Bodies({JSONString(<<"x">>)} \cup {BulkPayload(ids) : ids \in ServerIdLists})
      [] op = "Contract" ->
            Bodies({JSONString(<<"x">>), JSONObject(ServerContract)})
      [] op = "QueryContracts" ->
            Bodies({JSONObject(EmptyObject), JSONObject(Member("results", JSONNull)),
                    JSONObject(Member("results", JSONArray(<<ServerContract>>)))})
      [] OTHER -> Bodies({})

----------------------------------------------------------------------------
(* Decoding a response body into the operation's target *)

\* The JSON type the target's Response field takes; "any" when the target has none.
ResponseType(op) ==
    CASE op \in {"GetTransaction", "CreateTransaction", "QueryTransactions",
                 "Contract", "QueryContracts"} -> "object"
      [] op = "BulkCreateTransactions" -> "array"
      [] OTHER -> "any"

\* json.NewDecoder(resp.Body).Decode(out) returns nil (inquirer.go:98).
decodeOK(op, body) ==
    /\ body.json
    /\ \/ ResponseType(op) = "any"
       \/ "response" \notin DOMAIN body.obj
       \/ body.obj["response"].t \in {ResponseType(op), "null"}

\* The Response field after a decode that returned nil: the payload, or the
\* empty object / empty array standing for the untouched zero value.
HasPayload(body) ==
    "response" \in DOMAIN body.obj /\ body.obj["response"].t # "null"

PayloadOf(body) ==
    IF ~HasPayload(body) THEN <<>>
    ELSE IF body.obj["response"].t = "array" THEN body.obj["response"].a
    ELSE body.obj["response"].o

\* A decoded Results field, a slice: nil unless the member is a JSON array.
HasResults(payload) == "results" \in DOMAIN payload /\ payload["results"].t = "array"

\* transaction.go:124-129
decodeTransactionResults(payload) ==
    IF HasResults(payload)
    THEN NonNil([i \in 1..Len(payload["results"].a) |->
                    decodeTransaction(payload["results"].a[i])])
    ELSE Nil

\* client.go:188-193
decodeContractResults(payload) ==
    IF HasResults(payload)
    THEN NonNil([i \in 1..Len(payload["results"].a) |->
                    decodeContract(payload["results"].a[i])])
    ELSE Nil

\* The embedded HTTPResponse (client.go:8-11) of the target after the transport
\* returned nil: decoded when the transport was given the target, zero otherwise.
envelopeOK(decoded, body) == decoded /\ Field(body.obj, "ok", FALSE)
envelopeStatus(decoded, body) == IF decoded THEN Field(body.obj, "status", 0) ELSE 0

----------------------------------------------------------------------------
(* inquirer.go: the transport *)

HexChars == DigitChars \cup {"a", "b", "c", "d", "e", "f", "A", "B", "C", "D", "E", "F"}

\* http.NewRequest returns no error: url.Parse accepts the URL, every "%" in it
\* starting an escape of two hexadecimal digits.
NewRequestOK(url) ==
    \A i \in 1..Len(url) :
        url[i] = "%" => i + 2 <= Len(url) /\ url[i + 1] \in HexChars /\ url[i + 2] \in HexChars

NilBody == <<>>

\* The readings of time.Now() (inquirer.go:82), in microseconds past TimeSecond.
\* Calls made within one tick of the clock read the same time.
ClockReadings == {500000}

\* doRequest up to the call of httpClient.Do (inquirer.go:73-90), for operation a;
\* out tells whether the caller gave a decode target, us is the clock's reading.
doRequest(a, method, resource, contentType, body, out, us) ==
    LET endpoint == IF Endpoint = <<>> THEN defaultEndpoint ELSE Endpoint
        url == endpoint \o resource
        timestamp == formatTimestamp(us)
        auth == authorizationHeader(Credentials, hashState, hmacUnique, method,
                                    resource, contentType, timestamp, body)
    IN  /\ Endpoint' = endpoint
        /\ args' = a
        /\ calls' = calls + 1
        /\ resp' = NoResponse
        /\ UNCHANGED <<Credentials, hmacUnique>>
        /\ IF ~NewRequestOK(url)
           THEN /\ phase' = "returned"
                /\ ret' = Returned(a.zero, APIError(0, "failed to create HTTP request object"))
                /\ req' = NoRequest
                /\ sends' = 0
                /\ UNCHANGED <<hashState, sigLog>>
           ELSE IF auth.panic
           THEN /\ phase' = "panicked"
                /\ ret' = NoReturn
                /\ req' = NoRequest
                /\ sends' = 0
                /\ UNCHANGED <<hashState, sigLog>>
           ELSE /\ phase' = "inflight"
                /\ ret' = NoReturn
                /\ req' = [sent |-> TRUE, method |-> method,
                           resource |-> resource, body |-> body, out |-> out,
                           header |-> [dragonchain |-> Credentials.DragonChainID,
                                       timestamp |-> timestamp,
                                       Authorization |-> auth.header,
                                       ContentType |-> IF contentType # <<>>
                                                       THEN ApplicationJSON ELSE <<>>]]
                /\ sends' = 1
                /\ hashState' = auth.hs
                /\ sigLog' = sigLog \cup
                       {[method |-> method, resource |-> resource,
                         accountId |-> Credentials.DragonChainID, timestamp |-> timestamp,
                         contentType |-> contentType, body |-> body,
                         key |-> Credentials.APIKey, sig |-> auth.sig]}

\* inquirer.go:57-71
Get(a, resource, us) == doRequest(a, MethodGet, resource, ApplicationJSON, NilBody, TRUE, us)
Post(a, resource, body, us) == doRequest(a, MethodPost, resource, ApplicationJSON, body, TRUE, us)
Put(a, resource, body, us) == doRequest(a, MethodPut, resource, ApplicationJSON, body, TRUE, us)
Delete(a, resource, us) == doRequest(a, MethodDelete, resource, <<>>, NilBody, FALSE, us)

\* An operation that returns before it reaches the transport.
ReturnLocal(a, err) ==
    /\ args' = a
    /\ calls' = calls + 1
    /\ phase' = "returned"
    /\ ret' = Returned(a.zero, err)
    /\ req' = NoRequest
    /\ resp' = NoResponse
    /\ sends' = 0
    /\ UNCHANGED <<Endpoint, Credentials, hashState, hmacUnique, sigLog>>

CanCall == phase \in {"idle", "returned"} /\ calls < MaxCalls

----------------------------------------------------------------------------
(* transaction.go, client.go: the resource clients, up to the request *)

P_transaction == <<"/", "t", "r", "a", "n", "s", "a", "c", "t", "i", "o", "n">>
P_transation == <<"/", "t", "r", "a", "n", "s", "a", "t", "i", "o", "n">>
P_transaction_bulk == P_transaction \o <<"_", "b", "u", "l", "k">>
P_contract == <<"/", "c", "o", "n", "t", "r", "a", "c", "t">>

Ids == {<<"a">>, <<"%">>}
Versions == {<<"0">>, <<"5">>, <<"-", "1">>, <<"+", "2">>, <<"a", "b", "c">>, <<>>}

TransactionDefinitions ==
    {[Version |-> v, Type |-> <<"y">>, Payload |-> Encodable(<<"p">>), Tag |-> <<>>] :
        v \in Versions}
    \cup {[Version |-> <<"5">>, Type |-> <<"y">>, Payload |-> Unencodable, Tag |-> <<"g">>]}

ContractDefinitionOf(v, image) ==
    [Version |-> v, Type |-> <<"y">>, Order |-> <<>>, Image |-> image, Command |-> <<>>,
     DesiredState |-> <<>>, Args |-> <<>>, Environment |-> <<>>, Secrets |-> <<>>,
     Seconds |-> 0, Cron |-> <<>>, Authentication |-> <<>>]

ContractDefinitions == {ContractDefinitionOf(v, <<"i">>) : v \in Versions}

ContractUpdates == {ContractDefinitionOf(<<>>, <<"i">>), ContractDefinitionOf(<<>>, <<>>)}

BulkInputs ==
    {[i \in 1..n |-> [Version |-> <<"0">>, Type |-> <<"y">>,
                      Payload |-> Encodable(<<"p">>), Tag |-> <<>>]] :
        n \in (MaxTxs - 1)..MaxTxs}
    \cup {<<[Version |-> <<"5">>, Type |-> <<"y">>, Payload |-> Unencodable, Tag |-> <<>>]>>}

QueryOptionsSmall == {[QueryString |-> <<>>, Sort |-> <<>>, Offset |-> 0, Limit |-> 2]}

\* Mutant of defaultVersion: only a negative version is rewritten.
defaultVersionNegativeOnly(def, version) ==
    IF Atoi(def.Version) < 0 THEN [def EXCEPT !.Version = version] ELSE def

\* The version of a definition whose version parsed: rewritten when it is not
\* positive (transaction.go:97-99, client.go:264-266).
defaultVersion(def, version) ==
    IF Atoi(def.Version) <= 0 THEN [def EXCEPT !.Version = version] ELSE def

\* transaction.go:68-71
GetTransaction ==
    \E id \in Ids, us \in ClockReadings :
        /\ CanCall
        /\ Get([op |-> "GetTransaction", id |-> id, zero |-> Nil],
               P_transaction \o <<"/">> \o id, us)

\* transaction.go:92-108
CreateTransaction ==
    \E supplied \in TransactionDefinitions, us \in ClockReadings :
        LET def == defaultVersion(supplied, <<"1">>)
            a == [op |-> "CreateTransaction", supplied |-> supplied, zero |-> <<>>]
        IN  /\ CanCall
            /\ IF ~AtoiOK(supplied.Version)
               THEN ReturnLocal(a, LocalError("invalid version"))
               ELSE IF ~marshalTransactionDefinitionOK(def)
               THEN ReturnLocal(a, LocalError("failed to JSON marshal transaction object"))
               ELSE Post(a, P_transaction, marshalTransactionDefinition(def), us)

\* transaction.go:123-135
QueryTransactions ==
    \E q \in QueryOptionsSmall, us \in ClockReadings :
        \E order \in MapOrders(q) :
            LET params == luceneQueryParams(q, order)
                url == IF params # <<>> THEN P_transation \o <<"?">> \o params
                       ELSE P_transation
            IN  /\ CanCall
                /\ Get([op |-> "QueryTransactions", q |-> q, zero |-> Nil], url, us)

\* transaction.go:163-175
BulkCreateTransactions ==
    \E txs \in BulkInputs, us \in ClockReadings :
        LET a == [op |-> "BulkCreateTransactions", txs |-> txs, zero |-> Nil]
        IN  /\ CanCall
            /\ IF ~marshalBulkOK(txs)
               THEN ReturnLocal(a, LocalError("failed to JSON marshal bulk transaction objects"))
               ELSE Post(a, P_transaction_bulk, marshalBulk(txs), us)

\* client.go:167-172
Contract ==
    \E id \in Ids, us \in ClockReadings :
        /\ CanCall
        /\ Get([op |-> "Contract", id |-> id, zero |-> Nil], P_contract \o <<"/">> \o id, us)

\* client.go:187-199
QueryContracts ==
    \E q \in QueryOptionsSmall, us \in ClockReadings :
        \E order \in MapOrders(q) :
            LET params == luceneQueryParams(q, order)
                url == IF params # <<>> THEN P_contract \o <<"?">> \o params ELSE P_contract
            IN  /\ CanCall
                /\ Get([op |-> "QueryContracts", q |-> q, zero |-> Nil], url, us)

\* client.go:222-228; json.Marshal of a ContractDefinition cannot fail.
UpdateContract ==
    \E id \in Ids, update \in ContractUpdates, us \in ClockReadings :
        /\ CanCall
        /\ Put([op |-> "UpdateContract", id |-> id, update |-> update, zero |-> NoValue],
               P_contract \o <<"/">> \o id, marshalContractDefinition(update), us)

\* client.go:243-245: the transport's Delete takes no decode target.
DeleteContract ==
    \E id \in Ids, us \in ClockReadings :
        /\ CanCall
        /\ Delete([op |-> "DeleteContract", id |-> id, zero |-> NoValue],
                  P_contract \o <<"/">> \o id, us)

\* client.go:259-272
CreateContract ==
    \E supplied \in ContractDefinitions, us \in ClockReadings :
        LET def == defaultVersion(supplied, <<"3">>)
            a == [op |-> "CreateContract", supplied |-> supplied, zero |-> NoValue]
        IN  /\ CanCall
            /\ IF ~AtoiOK(supplied.Version)
               THEN ReturnLocal(a, LocalError("invalid version"))
               ELSE Post(a, P_contract, marshalContractDefinition(def), us)

----------------------------------------------------------------------------
(* The resource clients, from the transport's return on *)

\* GetTransaction (transaction.go:72-79)
returnGetTransaction(decoded, body) ==
    IF ~envelopeOK(decoded, body)
    THEN Returned(Nil, APIError(envelopeStatus(decoded, body), NoCause))
    ELSE Returned(NonNil(decodeTransaction(PayloadOf(body))), NilError)

\* CreateTransaction (transaction.go:110-114)
returnCreateTransaction(decoded, body) ==
    IF ~envelopeOK(decoded, body)
    THEN Returned(<<>>, APIError(envelopeStatus(decoded, body), NoCause))
    ELSE Returned(Field(PayloadOf(body), "transaction_id", <<>>), NilError)

\* Mutant of returnQueryTransactions: a nil Results is returned as it is.
returnQueryTransactionsNilKept(decoded, body) ==
    IF ~envelopeOK(decoded, body)
    THEN Returned(Nil, APIError(envelopeStatus(decoded, body), NoCause))
    ELSE Returned(decodeTransactionResults(PayloadOf(body)), NilError)

\* QueryTransactions (transaction.go:138-146)
returnQueryTransactions(decoded, body) ==
    IF ~envelopeOK(decoded, body)
    THEN Returned(Nil, APIError(envelopeStatus(decoded, body), NoCause))
    ELSE LET results == decodeTransactionResults(PayloadOf(body))
         IN  Returned(IF results = Nil THEN NonNil(<<>>) ELSE results, NilError)

\* Mutant of bulkIds: the list is sized by the input, not by the response.
bulkIdsByInput(response) ==
    [i \in 1..Len(args.txs) |->
        IF i <= Len(response) THEN Field(response[i], "transaction_id", <<>>) ELSE <<>>]

\* The ids of a decoded bulk response, one per element (transaction.go:181-184).
bulkIds(response) == [i \in 1..Len(response) |-> Field(response[i], "transaction_id", <<>>)]

\* BulkCreateTransactions (transaction.go:178-185)
returnBulkCreateTransactions(decoded, body) ==
    IF ~envelopeOK(decoded, body)
    THEN Returned(Nil, APIError(envelopeStatus(decoded, body), NoCause))
    ELSE Returned(NonNil(bulkIds(PayloadOf(body))), NilError)

\* Contract (client.go:175-178)
returnContract(decoded, body) ==
    IF ~envelopeOK(decoded, body)
    THEN Returned(Nil, APIError(envelopeStatus(decoded, body), NoCause))
    ELSE Returned(NonNil(decodeContract(PayloadOf(body))), NilError)

\* QueryContracts (client.go:202-209)
returnQueryContracts(decoded, body) ==
    IF ~envelopeOK(decoded, body)
    THEN Returned(Nil, APIError(envelopeStatus(decoded, body), NoCause))
    ELSE LET results == decodeContractResults(PayloadOf(body))
         IN  Returned(IF results = Nil THEN NonNil(<<>>) ELSE results, NilError)

\* UpdateContract, DeleteContract, CreateContract (client.go:231-234, 248-251, 275-278)
returnStatusOnly(decoded, body) ==
    IF ~envelopeOK(decoded, body)
    THEN Returned(NoValue, APIError(envelopeStatus(decoded, body), NoCause))
    ELSE Returned(NoValue, NilError)

\* What operation a returns once the transport returned nil for the body received.
clientReturn(a, decoded, body) ==
    CASE a.op = "GetTransaction" -> returnGetTransaction(decoded, body)
      [] a.op = "CreateTransaction" -> returnCreateTransaction(decoded, body)
      [] a.op = "QueryTransactions" -> returnQueryTransactions(decoded, body)
      [] a.op = "BulkCreateTransactions" -> returnBulkCreateTransactions(decoded, body)
      [] a.op = "Contract" -> returnContract(decoded, body)
      [] a.op = "QueryContracts" -> returnQueryContracts(decoded, body)
      [] OTHER -> returnStatusOnly(decoded, body)

\* httpClient.Do returns an error (inquirer.go:91-93); every client wraps it.
HttpDoFails ==
    /\ phase = "inflight"
    /\ phase' = "returned"
    /\ resp' = [received |-> TRUE, err |-> TRUE]
    /\ ret' = Returned(args.zero, APIError(0, "request failed"))
    /\ UNCHANGED <<Endpoint, Credentials, hashState, hmacUnique, args, req, sends,
                   calls, sigLog>>

\* httpClient.Do returns a response (inquirer.go:94-98), and the client finishes.
HttpDoResponds ==
    /\ phase = "inflight"
    /\ \E body \in ServerBodies(args.op) :
           /\ resp' = [received |-> TRUE, err |-> FALSE, body |-> body]
           /\ ret' = IF ~req.out THEN clientReturn(args, FALSE, body)
                     ELSE IF ~decodeOK(args.op, body)
                     THEN Returned(args.zero, APIError(0, "json decode"))
                     ELSE clientReturn(args, TRUE, body)
    /\ phase' = "returned"
    /\ UNCHANGED <<Endpoint, Credentials, hashState, hmacUnique, args, req, sends,
                   calls, sigLog>>

----------------------------------------------------------------------------
(* The client's life *)

Endpoints == {<<>>, <<"h", ":", "/", "/", "x">>, <<"%">>}

CredentialsOf(algo) ==
    [DragonChainID |-> <<"d", "c">>, APIKey |-> <<"k">>, ClientID |-> <<"c", "l">>,
     SigningAlgorithm |-> algo]

Init ==
    /\ Endpoint \in Endpoints
    /\ Credentials \in {CredentialsOf(NilHash), CredentialsOf(UserHash)}
    /\ hashState = <<>>
    /\ hmacUnique \in BOOLEAN
    /\ phase = "idle"
    /\ args = [op |-> "none"]
    /\ req = NoRequest
    /\ resp = NoResponse
    /\ ret = NoReturn
    /\ sends = 0
    /\ calls = 0
    /\ sigLog = {}

Next ==
    \/ GetTransaction
    \/ CreateTransaction
    \/ QueryTransactions
    \/ BulkCreateTransactions
    \/ Contract
    \/ QueryContracts
    \/ UpdateContract
    \/ DeleteContract
    \/ CreateContract
    \/ HttpDoFails
    \/ HttpDoResponds

Spec == Init /\ [][Next]_vars

----------------------------------------------------------------------------
(* The query builder on its own: every QueryOptions value, every map order *)

QueryChars == {"a", "&"}

QueryOptionsAll ==
    [QueryString : StringsUpTo(QueryChars, MaxStrLen), Sort : StringsUpTo(QueryChars, MaxStrLen),
     Offset : -1..MaxOffset, Limit : -1..MaxLimit]

InitLucene ==
    /\ Endpoint = <<>>
    /\ Credentials = CredentialsOf(UserHash)
    /\ hashState = <<>>
    /\ hmacUnique = FALSE
    /\ phase = "idle"
    /\ args \in {[op |-> "luceneQueryParams", q |-> q, zero |-> <<>>] : q \in QueryOptionsAll}
    /\ req = NoRequest
    /\ resp = NoResponse
    /\ ret = NoReturn
    /\ sends = 0
    /\ calls = 0
    /\ sigLog = {}

ApplyLucene ==
    /\ phase = "idle"
    /\ args.op = "luceneQueryParams"
    /\ \E order \in MapOrders(args.q) :
           ret' = Returned(luceneQueryParams(args.q, order), NilError)
    /\ phase' = "returned"
    /\ UNCHANGED <<Endpoint, Credentials, hashState, hmacUnique, args, req, resp, sends,
                   calls, sigLog>>

NextLucene == ApplyLucene

SpecLucene == InitLucene /\ [][NextLucene]_vars

----------------------------------------------------------------------------
(* Properties *)

Done == phase = "returned"

\* The server answered with a JSON envelope whose response member, if any, has the
\* shape the operation expects.
Answered ==
    /\ Done
    /\ resp.received
    /\ ~resp.err
    /\ resp.body.json
    /\ \/ "response" \notin DOMAIN resp.body.obj
       \/ resp.body.obj["response"].t = ResponseType(args.op)

AnsweredOK == Answered /\ resp.body.obj["ok"]
AnsweredNotOK == Answered /\ ~resp.body.obj["ok"]

\* C1: for every operation, a completed exchange whose envelope has ok=false and
\* status S returns an API error with status code S and no success result.
C1_NotOKSurfacesStatus ==
    AnsweredNotOK =>
        /\ ret.err.kind = "APIError"
        /\ ret.err.StatusCode = resp.body.obj["status"]
        /\ ret.value = args.zero

ValueOperations ==
    {"GetTransaction", "CreateTransaction", "QueryTransactions", "BulkCreateTransactions",
     "Contract", "QueryContracts"}

\* A result that is not the zero value of its type.
Populated(op, value) ==
    CASE op = "GetTransaction" -> ~value.isNil /\ value.v # ZeroTransaction
      [] op = "CreateTransaction" -> value # <<>>
      [] op = "Contract" -> ~value.isNil /\ value.v # ZeroContract
      [] op = "BulkCreateTransactions" ->
            ~value.isNil /\ \A i \in 1..Len(value.v) : value.v[i] # <<>>
      [] OTHER -> ~value.isNil

\* C2: a value-returning operation returns a non-nil error or a populated result,
\* never a zero-value result together with a nil error.
C2_ErrorOrPopulated ==
    (Done /\ args.op \in ValueOperations) =>
        (ret.err # NilError \/ Populated(args.op, ret.value))

\* The text of a decimal integer: an optional sign and at least one digit.
IsIntegerText(s) ==
    LET digits == IF s # <<>> /\ s[1] \in {"+", "-"} THEN SubSeq(s, 2, Len(s)) ELSE s
    IN  digits # <<>> /\ \A i \in 1..Len(digits) : digits[i] \in DigitChars

Creating == args.op \in {"CreateTransaction", "CreateContract"}

\* C3: CreateTransaction and CreateContract with a version that is not an integer
\* return a local validation error, and the HTTP sender is not invoked.
C3_InvalidVersionNoSend ==
    (Creating /\ ~IsIntegerText(args.supplied.Version)) =>
        /\ Done
        /\ ret.err.kind = "local"
        /\ ret.err.Err = "invalid version"
        /\ sends = 0
        /\ ~req.sent
        /\ ~resp.received

C3_Witness ==
    /\ Done
    /\ args.op = "CreateTransaction"
    /\ args.supplied.Version = <<"a", "b", "c">>
    /\ calls = 2
    /\ ret.err.kind = "local"

\* The version the claim expects on the wire for a supplied version.
ExpectedVersion(op, supplied) ==
    IF Atoi(supplied) > 0 THEN supplied
    ELSE IF op = "CreateTransaction" THEN <<"1">> ELSE <<"3">>

\* C4: the body sent by CreateTransaction carries version "1", and the body sent by
\* CreateContract version "3", when the supplied version parses to an integer <= 0;
\* otherwise the version sent is the one supplied.
C4_VersionOnTheWire ==
    (Creating /\ req.sent) =>
        /\ "version" \in DOMAIN req.body
        /\ req.body["version"] = ExpectedVersion(args.op, args.supplied.Version)

C4_Witness ==
    /\ args.op = "CreateContract"
    /\ args.supplied.Version = <<"-", "1">>
    /\ req.sent
    /\ req.body["version"] = <<"3">>

C4_WitnessTransaction ==
    /\ args.op = "CreateTransaction"
    /\ args.supplied.Version = <<"0">>
    /\ req.sent
    /\ req.body["version"] = <<"1">>

\* The operation in progress got past its local validation and the construction of
\* its request.
PassedLocalChecks ==
    /\ args.op # "none"
    /\ ret.err.kind # "local"
    /\ ret.err.Err # "failed to create HTTP request object"

\* C5: an operation that passes local validation and request construction invokes
\* the HTTP sender exactly once, and a failure is returned to its caller.
C5_ExactlyOneSend ==
    /\ sends <= 1
    /\ (phase \in {"returned", "panicked"} /\ PassedLocalChecks) =>
           /\ sends = 1
           /\ phase = "returned"
           /\ (resp.err \/ ~resp.body.json) => ret.err.kind = "APIError"

\* The verb and the resource path the API fixes for each operation.
StartsWith(s, prefix) == Len(s) >= Len(prefix) /\ SubSeq(s, 1, Len(prefix)) = prefix

ApiTransaction == <<"/", "t", "r", "a", "n", "s", "a", "c", "t", "i", "o", "n">>
ApiContract == <<"/", "c", "o", "n", "t", "r", "a", "c", "t">>

ApiRequest(a, method, resource) ==
    CASE a.op = "GetTransaction" ->
            method = <<"G", "E", "T">> /\ resource = ApiTransaction \o <<"/">> \o a.id
      [] a.op = "CreateTransaction" ->
            method = <<"P", "O", "S", "T">> /\ resource = ApiTransaction
      [] a.op = "BulkCreateTransactions" ->
            /\ method = <<"P", "O", "S", "T">>
            /\ resource = ApiTransaction \o <<"_", "b", "u", "l", "k">>
      [] a.op = "QueryTransactions" ->
            method = <<"G", "E", "T">> /\ StartsWith(resource, ApiTransaction \o <<"?">>)
      [] a.op = "Contract" ->
            method = <<"G", "E", "T">> /\ resource = ApiContract \o <<"/">> \o a.id
      [] a.op = "QueryContracts" ->
            method = <<"G", "E", "T">> /\ StartsWith(resource, ApiContract \o <<"?">>)
      [] a.op = "CreateContract" ->
            method = <<"P", "O", "S", "T">> /\ resource = ApiContract
      [] a.op = "UpdateContract" ->
            method = <<"P", "U", "T">> /\ resource = ApiContract \o <<"/">> \o a.id
      [] a.op = "DeleteContract" ->
            /\ method = <<"D", "E", "L", "E", "T", "E">>
            /\ resource = ApiContract \o <<"/">> \o a.id

\* C6: each operation sends the HTTP verb and the resource path fixed by the API.
C6_VerbAndPath == req.sent => ApiRequest(args, req.method, req.resource)

SameInputs(e1, e2) ==
    /\ e1.method = e2.method
    /\ e1.resource = e2.resource
    /\ e1.accountId = e2.accountId
    /\ e1.timestamp = e2.timestamp
    /\ e1.contentType = e2.contentType
    /\ e1.body = e2.body
    /\ e1.key = e2.key

\* C7: two signing calls with identical inputs return identical signatures, whatever
\* signing calls were made before or between them.
C7_SigningDeterministic ==
    \A e1, e2 \in sigLog : SameInputs(e1, e2) => e1.sig = e2.sig

\* HMAC-SHA256 of a message under a key, computed on fresh hash objects.
HmacSha256(key, message) ==
    Sha256Sum(<<XorPad(key, "opad"), Sha256Sum(<<XorPad(key, "ipad"), message>>)>>)

\* C8: with no signing algorithm in the Credentials, signing does not fail or abort
\* the request, and the Authorization header carries the default (SHA-256) HMAC.
C8_DefaultAlgorithm ==
    Credentials.SigningAlgorithm = NilHash =>
        /\ phase # "panicked"
        /\ req.sent =>
               req.header.Authorization.sig =
                   HmacSha256(Credentials.APIKey,
                              signingMessage(req.method, req.resource,
                                             req.header.ContentType,
                                             req.header.timestamp, req.body, Credentials))

\* The fields the claim gives the query string of a QueryOptions value.
ExpectedFields(q) ==
    {K_limit \o <<"=">> \o Itoa(IF q.Limit > 0 THEN q.Limit ELSE 10),
     K_offset \o <<"=">> \o Itoa(IF q.Offset > 0 THEN q.Offset ELSE 0)}
        \cup (IF q.QueryString # <<>> THEN {K_q \o <<"=">> \o q.QueryString} ELSE {})
        \cup (IF q.Sort # <<>> THEN {K_sort \o <<"=">> \o q.Sort} ELSE {})

\* C9: the built query string is an '&'-joined list of key=value fields with no
\* leading '&' or '?', no trailing '&' and no empty field, holding exactly limit,
\* offset, and q and sort when they are non-empty.
C9_QueryStringFields ==
    (Done /\ args.op = "luceneQueryParams") =>
        LET built == ret.value
            fields == Split(built, "&", <<>>)
        IN  /\ built # <<>>
            /\ built[1] \notin {"&", "?"}
            /\ built[Len(built)] # "&"
            /\ \A i \in 1..Len(fields) : fields[i] # <<>>
            /\ Range(fields) = ExpectedFields(args.q)
            /\ Len(fields) = Cardinality(ExpectedFields(args.q))

\* The ids of the elements of a bulk response, in the order the server sent them.
ServerIds(body) ==
    [i \in 1..Len(body.obj["response"].a) |-> body.obj["response"].a[i]["transaction_id"]]

\* C10: BulkCreateTransactions given N definitions and an ok=true response of K ids
\* returns exactly those K ids, in the server's order, with a nil error.
C10_BulkReturnsServerIds ==
    (AnsweredOK /\ args.op = "BulkCreateTransactions" /\ "response" \in DOMAIN resp.body.obj) =>
        ret = Returned(NonNil(ServerIds(resp.body)), NilError)

C10_Witness ==
    /\ AnsweredOK
    /\ args.op = "BulkCreateTransactions"
    /\ Len(args.txs) = 3
    /\ "response" \in DOMAIN resp.body.obj
    /\ ServerIds(resp.body) = <<TxId(1), TxId(2)>>
    /\ ret = Returned(NonNil(<<TxId(1), TxId(2)>>), NilError)

Querying == args.op \in {"QueryTransactions", "QueryContracts"}

\* The answer carries no result list: no response member, no results member in it,
\* or a results member that is null.
ResultsNullOrAbsent(body) ==
    \/ "response" \notin DOMAIN body.obj
    \/ "results" \notin DOMAIN body.obj["response"].o
    \/ body.obj["response"].o["results"].t = "null"

\* C11: QueryTransactions and QueryContracts, on an ok=true response whose result
\* list is null or absent, return an empty non-nil list with a nil error; a nil list
\* is returned only together with a non-nil error.
C11_EmptyNotNil ==
    (Done /\ Querying) =>
        /\ ret.value.isNil => ret.err # NilError
        /\ (AnsweredOK /\ ResultsNullOrAbsent(resp.body)) =>
               ret = Returned(NonNil(<<>>), NilError)

C11_Witness ==
    /\ AnsweredOK
    /\ args.op = "QueryTransactions"
    /\ "response" \in DOMAIN resp.body.obj
    /\ "results" \in DOMAIN resp.body.obj["response"].o
    /\ resp.body.obj["response"].o["results"].t = "null"
    /\ ret = Returned(NonNil(<<>>), NilError)

C11_WitnessContracts ==
    /\ AnsweredOK
    /\ args.op = "QueryContracts"
    /\ "response" \notin DOMAIN resp.body.obj
    /\ ret = Returned(NonNil(<<>>), NilError)

\* C12: no operation writes the state shared by the calls on one Client: the
\* transport's endpoint and Credentials keep the values given at construction.
C12_SharedFieldsNeverWritten ==
    [][Endpoint' = Endpoint /\ Credentials' = Credentials]_vars

\* Not claims: what holds of the code next to the claims above that fail.
Sanity_C1_ButDelete == args.op # "DeleteContract" => C1_NotOKSurfacesStatus
Sanity_C5_NoPanic == phase # "panicked" => C5_ExactlyOneSend
Sanity_C6_ButQuery == args.op # "QueryTransactions" => C6_VerbAndPath
Sanity_C12_EndpointSet == [][Endpoint # <<>> => Endpoint' = Endpoint]_vars
Sanity_C12_Credentials == [][Credentials' = Credentials]_vars
Sanity_C9_NoAmpersand ==
    (args.op = "luceneQueryParams" /\ "&" \notin Range(args.q.QueryString \o args.q.Sort))
        => C9_QueryStringFields

====
